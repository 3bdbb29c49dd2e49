------------------------------ MODULE AgentBoard ------------------------------
(***************************************************************************)
(* The device's agent board (client/source/board.c): a fixed-capacity      *)
(* table of agent rows keyed by the host's device session id, a derived    *)
(* blocked-first display order, a cursor that tracks a session id, the     *)
(* single in-flight Accept/Deny slot with its cooldown, and the scroll     *)
(* window.  One action per function of board.h that changes the board;     *)
(* HELLO re-initialises it (main.c) and the frame loop advances g_tick.    *)
(*                                                                         *)
(* Row text (name, title, workspace) is display data and is left out.      *)
(* Positions are 1-based here; the code's -1 "unresolved" is 0.            *)
(***************************************************************************)
EXTENDS Naturals, Sequences, SequencesExt, Functions

CONSTANTS Ids,        \* device session ids the host may send
          NoSession,  \* the code's session id 0: none
          Kinds,      \* agent kinds
          Allowlist,  \* the kinds with an approval mapping
          Statuses,   \* wire status values
          Blocked,    \* the status that sorts first and enables approval
          Cap,        \* AB_BOARD_CAP
          Cooldown,   \* AB_BOARD_APPROVAL_COOLDOWN, in ticks
          TickMod,    \* g_tick is a uint32_t: it wraps at this value
          Visible     \* the row counts a caller may ask the viewport for

ASSUME BoardAssumption ==
  /\ NoSession \notin Ids
  /\ Allowlist \subseteq Kinds
  /\ Blocked \in Statuses
  /\ Cap \in Nat \ {0}
  /\ Cooldown \in Nat \ {0}
  /\ TickMod \in Nat
  /\ Cooldown < TickMod
  /\ Visible \subseteq Nat \ {0}

VARIABLES rows,      \* the packed table, in insertion order
          order,     \* display position -> index into rows
          cursor,    \* selected session id, or NoSession
          scroll,    \* first display position shown, counted from 0
          inflight,  \* session id of the armed approval, or NoSession
          since,     \* g_tick when it was armed
          now,       \* g_tick
          hold       \* auxiliary: per id, the ticks during which the last send
                     \* to its row has neither expired nor been answered

vars == <<rows, order, cursor, scroll, inflight, since, now, hold>>

Row == [id : Ids, kind : Kinds, status : Statuses]

Count == Len(rows)
RowIds(r) == {r[i].id : i \in 1..Len(r)}
IsBlocked(row) == row.status = Blocked

-----------------------------------------------------------------------------
(* board_reorder: the stable blocked-first partition.  It is the one       *)
(* permutation of the row indices that sorts them by (blocked, index), so  *)
(* the set below is a singleton.                                           *)

ComesBefore(r, i, j) ==
  \/ IsBlocked(r[i]) /\ ~IsBlocked(r[j])
  \/ (IsBlocked(r[i]) <=> IsBlocked(r[j])) /\ i < j

BlockedFirst(r) ==
  {o \in Bijection(1..Len(r), 1..Len(r)) :
     \A p, q \in 1..Len(r) : p < q => ComesBefore(r, o[p], o[q])}

(* ab_board_cursor_pos *)
PositionOf(id) ==
  IF \E p \in 1..Count : rows[order[p]].id = id
  THEN CHOOSE p \in 1..Count : rows[order[p]].id = id
  ELSE 0

CursorResolves == cursor \in RowIds(rows)

Present(id) == id \in RowIds(rows)

\* A bug: the capacity check is off by one.
FreeSeatOffByOne == Count <= Cap

FreeSeat == Count < Cap

AtMost(x, bound) == IF x > bound THEN bound ELSE x

\* A bug: removal leaves the cursor naming the session that is gone.
StaleFallback(left, o, i) == cursor

(* The nearest-row fallback of board_remove_index: the cursor of the board *)
(* left after dropping raw index i, whose display order is o.              *)
CursorAfterDrop(left, o, i) ==
  IF cursor # rows[i].id THEN cursor
  ELSE IF left = <<>> THEN NoSession
  ELSE left[o[AtMost(PositionOf(cursor), Len(left))]].id

InflightAfterDrop(i) == IF inflight = rows[i].id THEN NoSession ELSE inflight

(* now - inflight_since in uint32_t arithmetic *)
Elapsed == IF now >= since THEN now - since ELSE (now + TickMod) - since

InCooldown == inflight # NoSession /\ Elapsed < Cooldown

-----------------------------------------------------------------------------
Init ==
  /\ rows = <<>> /\ order = <<>>
  /\ cursor = NoSession /\ scroll = 0
  /\ inflight = NoSession /\ since = 0
  /\ now = 0
  /\ hold = [id \in Ids |-> 0]

(* HELLO: ab_board_init.  g_tick keeps running. *)
Hello ==
  /\ rows' = <<>> /\ order' = <<>>
  /\ cursor' = NoSession /\ scroll' = 0
  /\ inflight' = NoSession /\ since' = 0
  /\ hold' = [id \in Ids |-> 0]
  /\ UNCHANGED now

\* A bug: any update of the row answers the approval, even a re-emitted
\* frame that repeats the status (the case board.c calls F8).
AnyUpdateAnswers(row, i) ==
  /\ rows[i].id = row.id
  /\ rows' = [rows EXCEPT ![i] = row]
  /\ order' \in BlockedFirst(rows')
  /\ inflight' = IF inflight = row.id THEN NoSession ELSE inflight
  /\ hold' = IF rows[i].status # row.status THEN [hold EXCEPT ![row.id] = 0] ELSE hold
  /\ UNCHANGED <<cursor, scroll, since, now>>

\* A bug: an update in place forgets to re-sort.
UpdateWithoutSort(row, i) ==
  /\ rows[i].id = row.id
  /\ rows' = [rows EXCEPT ![i] = row]
  /\ LET changed == rows[i].status # row.status
     IN  /\ inflight' = IF inflight = row.id /\ changed THEN NoSession ELSE inflight
         /\ hold' = IF changed THEN [hold EXCEPT ![row.id] = 0] ELSE hold
  /\ UNCHANGED <<order, cursor, scroll, since, now>>

(* ab_board_upsert, the id is present: the row is replaced in place, and   *)
(* only a genuine status transition answers the in-flight approval.        *)
UpdateRow(row, i) ==
  /\ rows[i].id = row.id
  /\ rows' = [rows EXCEPT ![i] = row]
  /\ order' \in BlockedFirst(rows')
  /\ LET changed == rows[i].status # row.status
     IN  /\ inflight' = IF inflight = row.id /\ changed THEN NoSession ELSE inflight
         /\ hold' = IF changed THEN [hold EXCEPT ![row.id] = 0] ELSE hold
  /\ UNCHANGED <<cursor, scroll, since, now>>

\* A bug: the first row of an empty board is not selected.
InsertUnselected(base, c, row) ==
  /\ rows' = Append(base, row)
  /\ order' \in BlockedFirst(rows')
  /\ cursor' = c

(* The common tail of an insert: the row is appended to `base`, whose      *)
(* cursor is c; an empty selection lands on it.                            *)
InsertInto(base, c, row) ==
  /\ rows' = Append(base, row)
  /\ order' \in BlockedFirst(rows')
  /\ cursor' = IF c = NoSession THEN row.id ELSE c

(* ab_board_upsert, a new id and a free seat *)
InsertRow(row) ==
  /\ ~Present(row.id)
  /\ FreeSeat
  /\ InsertInto(rows, cursor, row)
  /\ inflight' = IF inflight = row.id THEN NoSession ELSE inflight
  /\ UNCHANGED <<scroll, since, now, hold>>

\* A bug: the oldest row is evicted whatever its status.
OldestRow(i) == i = 1

(* The eviction victim: the oldest row that is not blocked. *)
IsVictim(i) ==
  /\ ~IsBlocked(rows[i])
  /\ \A j \in 1..(i - 1) : IsBlocked(rows[j])

(* ab_board_upsert, a new id and a full table.  board_remove_index runs    *)
(* first, with its own re-sort and cursor fallback; then the insert.       *)
EvictAndInsert(row, i) ==
  /\ ~Present(row.id)
  /\ ~FreeSeat
  /\ IsVictim(i)
  /\ LET left == RemoveAt(rows, i)
     IN  \E mid \in BlockedFirst(left) :
           InsertInto(left, CursorAfterDrop(left, mid, i), row)
  /\ inflight' = IF InflightAfterDrop(i) = row.id THEN NoSession ELSE InflightAfterDrop(i)
  /\ hold' = [hold EXCEPT ![rows[i].id] = 0]
  /\ UNCHANGED <<scroll, since, now>>

(* With every row blocked no victim exists and the insert is refused: no   *)
(* action, the board is unchanged.                                         *)
Upsert(row) ==
  \/ \E i \in 1..Count : UpdateRow(row, i)
  \/ InsertRow(row)
  \/ \E i \in 1..Count : EvictAndInsert(row, i)

\* A bug: removal forgets the in-flight slot tied to the removed id.
RemoveKeepsInflight(id) ==
  \E i \in 1..Count :
    /\ rows[i].id = id
    /\ rows' = RemoveAt(rows, i)
    /\ order' \in BlockedFirst(rows')
    /\ cursor' = CursorAfterDrop(rows', order', i)
    /\ hold' = [hold EXCEPT ![id] = 0]
    /\ UNCHANGED <<scroll, inflight, since, now>>

(* ab_board_remove: the session ended *)
RemoveRow(id) ==
  \E i \in 1..Count :
    /\ rows[i].id = id
    /\ rows' = RemoveAt(rows, i)
    /\ order' \in BlockedFirst(rows')
    /\ cursor' = CursorAfterDrop(rows', order', i)
    /\ inflight' = InflightAfterDrop(i)
    /\ hold' = [hold EXCEPT ![id] = 0]
    /\ UNCHANGED <<scroll, since, now>>

(* ab_board_cursor_set stores the id whether or not a row carries it *)
CursorSet(id) ==
  /\ cursor' = id
  /\ UNCHANGED <<rows, order, scroll, inflight, since, now, hold>>

(* ab_board_cursor_move by one row, clamped; an unresolved cursor lands    *)
(* on the first row, an empty board clears it.                             *)
CursorMove(down) ==
  /\ cursor' =
       IF Count = 0 THEN NoSession
       ELSE LET pos  == PositionOf(cursor)
                next == IF pos = 0 THEN 1
                        ELSE IF down THEN AtMost(pos + 1, Count)
                        ELSE IF pos > 1 THEN pos - 1 ELSE 1
            IN  rows[order[next]].id
  /\ UNCHANGED <<rows, order, scroll, inflight, since, now, hold>>

(* ab_board_approval_enabled *)
ApprovalEnabled ==
  \E i \in 1..Count :
    /\ rows[i].id = cursor
    /\ IsBlocked(rows[i])
    /\ rows[i].kind \in Allowlist
    /\ ~(InCooldown /\ inflight = cursor)

(* ab_board_arm_approval: board_approval in main.c sends exactly when this *)
(* succeeds.                                                               *)
ArmApproval ==
  /\ ApprovalEnabled
  /\ inflight' = cursor
  /\ since' = now
  /\ hold' = [hold EXCEPT ![cursor] = Cooldown]
  /\ UNCHANGED <<rows, order, cursor, scroll, now>>

\* A bug: the window follows the cursor upwards only.
LazyScroll(visible) ==
  LET cur == PositionOf(cursor)
  IN  IF cur # 0 /\ cur - 1 < scroll THEN cur - 1 ELSE scroll

(* The cursor-following step of ab_board_viewport_top, before clamping *)
FollowCursor(visible) ==
  LET cur == PositionOf(cursor)
  IN  IF cur = 0 THEN scroll
      ELSE IF cur - 1 < scroll THEN cur - 1
      ELSE IF cur - 1 >= scroll + visible THEN cur - visible
      ELSE scroll

(* ab_board_viewport_top: the first position shown, and its update *)
ViewportTop(visible) ==
  AtMost(FollowCursor(visible), IF Count > visible THEN Count - visible ELSE 0)

Viewport(visible) ==
  /\ scroll' = ViewportTop(visible)
  /\ UNCHANGED <<rows, order, cursor, inflight, since, now, hold>>

(* ++g_tick, once per frame of the main loop *)
Tick ==
  /\ now' = IF now + 1 = TickMod THEN 0 ELSE now + 1
  /\ hold' = [id \in Ids |-> IF hold[id] > 0 THEN hold[id] - 1 ELSE 0]
  /\ UNCHANGED <<rows, order, cursor, scroll, inflight, since>>

Next ==
  \/ Hello
  \/ \E row \in Row : Upsert(row)
  \/ \E id \in Ids : RemoveRow(id)
  \/ \E id \in Ids : CursorSet(id)
  \/ \E down \in BOOLEAN : CursorMove(down)
  \/ ArmApproval
  \/ \E visible \in Visible : Viewport(visible)
  \/ Tick

Spec == Init /\ [][Next]_vars

-----------------------------------------------------------------------------
(* Type invariant of the board's state. *)
TypeOK ==
  /\ rows \in Seq(Row) /\ Count <= Cap
  /\ order \in [1..Count -> 1..Count]
  /\ cursor \in Ids \cup {NoSession}
  /\ scroll \in Nat
  /\ inflight \in Ids \cup {NoSession}
  /\ since \in 0..(TickMod - 1)
  /\ now \in 0..(TickMod - 1)
  /\ hold \in [Ids -> 0..Cooldown]

(* No session has two rows. *)
UniqueIds == \A i, j \in 1..Count : rows[i].id = rows[j].id => i = j

(* What the screen draws (ab_board_row_at through order[]) is every row    *)
(* once, blocked rows first: the cached order is never stale.              *)
DisplayOrder == order \in BlockedFirst(rows)

(* The selection is never lost: a board with rows has a selected session.  *)
SomethingSelected == rows # <<>> => cursor # NoSession

(* An armed approval always belongs to a row that is on the board and      *)
(* still blocked: removal, eviction and a status change all release it.    *)
InflightRowBlocked ==
  inflight # NoSession =>
    \E i \in 1..Count : rows[i].id = inflight /\ IsBlocked(rows[i])

(* Wherever rows, cursor and the stored scroll have moved, the window the  *)
(* next frame draws contains the cursor's row and does not run past the    *)
(* end of a list that fills it.                                            *)
ViewportShowsCursor ==
  \A visible \in Visible :
    LET top == ViewportTop(visible)
    IN  /\ CursorResolves => PositionOf(cursor) \in (top + 1)..(top + visible)
        /\ Count >= visible => top + visible <= Count

(* A second tap on the row that owns the in-flight slot stays disabled     *)
(* until the row is answered or the cooldown has passed, across the wrap   *)
(* of the 32-bit tick; and no frame that leaves the row unanswered empties *)
(* the slot, however often the host repeats it.                            *)
DoubleTapHeld ==
  [][inflight # NoSession /\ hold[inflight] > 0 =>
       /\ InCooldown
       /\ inflight' = NoSession => hold'[inflight] = 0]_vars

(* The cursor tracks identity: while its row stays on the board, no frame  *)
(* from the host moves it, whatever is re-sorted, removed or evicted; and  *)
(* when its row goes, it lands on a row that is on the board.              *)
CursorTracksIdentity ==
  [][rows' # rows /\ rows' # <<>> /\ CursorResolves =>
       IF cursor \in RowIds(rows') THEN cursor' = cursor ELSE cursor' \in RowIds(rows')]_vars

(* A blocked agent never loses its seat to a newcomer: a blocked row       *)
(* leaves only when its session ends (the table shrinks) or at HELLO.      *)
BlockedKeepsSeat ==
  [][\A i \in 1..Count :
       IsBlocked(rows[i]) /\ rows[i].id \notin RowIds(rows') =>
         rows' = <<>> \/ Len(rows') < Count]_vars

(* What board.h says of ab_board_arm_approval: arming "disables further    *)
(* sends for the row until a status update arrives or the cooldown         *)
(* elapses".  The board has one in-flight slot for all rows, so arming     *)
(* another row forgets the first: this does not hold.                      *)
OneSendPerRow ==
  [][\A id \in Ids : inflight' = id /\ inflight # id => hold[id] = 0]_vars
=============================================================================
