-------------------------------- MODULE Device --------------------------------
(***************************************************************************)
(* The device's main loop (client/source/main.c): the terminal slots, the  *)
(* picker, what is focused and shown, the approval overlay, push-to-talk   *)
(* and the connection's life, around the agent board, which is module      *)
(* AgentBoard itself.                                                      *)
(*                                                                         *)
(* A pass of the loop scans the buttons, handles them, handles a touch and *)
(* polls the network, which calls on_frame per frame; any of these may be  *)
(* empty in a pass, so each is an action of its own here.  Every send may  *)
(* fail, and a failed send closes the socket under the handler's feet.     *)
(*                                                                         *)
(* Left out: the grids' contents (module Terminal), scrolling, the bytes   *)
(* of a key (module Ui), the sticky Ctrl bit, names and status texts, the  *)
(* alert log and its mutes, which decide about the LED only (module Ring), *)
(* the frame countdown between reconnects, scanning (module Pairing).      *)
(* Indices count from 1; the code's -1 and NULL are 0.                     *)
(***************************************************************************)
EXTENDS Naturals, Sequences, SequencesExt, Ring, Ui

CONSTANTS Ids, NoSession,            \* device session ids; id 0
          Kinds, Allowlist, Statuses, Blocked,
          BoardCap, Cooldown, TickMod, BoardVisible,
          Slots,                     \* AB_UI_MAX_SESSIONS: slots and picker rows
          Approvals,                 \* approval ids the host may mint
          ApprovalCap,               \* AB_APPROVALQ_CAP
          Presses                    \* the sets of buttons that go down at once

ASSUME DeviceAssumption ==
  /\ NoSession \notin Ids
  /\ Allowlist \subseteq Kinds /\ Blocked \in Statuses
  /\ BoardCap \in Nat \ {0}
  /\ TickMod \in Nat /\ Cooldown \in Nat \ {0} /\ Cooldown < TickMod
  /\ Slots \in Nat \ {0} /\ ApprovalCap \in Nat \ {0} /\ BoardVisible \in Nat \ {0}
  /\ \A down \in Presses : ~({"UP", "DOWN"} \subseteq down)   \* a D-pad rocks one way

VARIABLES rows, order, cursor, scroll, inflight, since, now, hold,   \* g_board, g_tick
          slots,      \* g_sessions: the id in each slot, or NoSession
          focused,    \* g_focused, an index into slots
          grid,       \* g_ui.term, the slot whose grid is drawn
          shown,      \* g_ui.focused_id, the id the header and the keys' guard use
          screen, mode, picker,
          net,        \* "off", "attached" (no HELLO yet) or "greeted"
          connected,  \* g_ui.connected
          ptt, mic,   \* g_ptt, s_sampling
          approvals,  \* g_approvals
          asked,      \* auxiliary: the approvals taken and not answered, oldest first
          heard       \* auxiliary: the ids named since the last HELLO

board == <<rows, order, cursor, scroll, inflight, since, now, hold>>
focus == <<slots, focused, grid, shown>>
ui == <<screen, mode, picker>>
link == <<net, connected>>
voice == <<ptt, mic>>
queue == <<approvals, asked>>
vars == <<board, focus, ui, link, voice, queue, heard>>

Board == INSTANCE AgentBoard WITH Cap <- BoardCap, Visible <- {BoardVisible}

-----------------------------------------------------------------------------
(* Sends.  A handler that sends may lose the connection (ab_net_send       *)
(* disconnects); one that does not leaves it alone.                        *)
MaySend == net' \in {net, "off"} /\ UNCHANGED connected
SendIf(sends) == IF sends THEN MaySend ELSE UNCHANGED link

(* session_for: the slot of an id, found or allocated; 0 when full. *)
SlotOf(id) ==
  IF id \in Range(slots) THEN CHOOSE i \in 1..Slots : slots[i] = id
  ELSE IF NoSession \in Range(slots)
  THEN CHOOSE i \in 1..Slots : /\ slots[i] = NoSession
                               /\ \A j \in 1..(i - 1) : slots[j] # NoSession
  ELSE 0

Allocated(id) == IF SlotOf(id) = 0 THEN slots ELSE [slots EXCEPT ![SlotOf(id)] = id]

(* focus_index, given the slots it reads. *)
FocusIndex(i, seats) ==
  /\ focused' = i /\ grid' = i
  /\ shown' = IF i = 0 THEN NoSession ELSE seats[i]

(* session_for followed by focus_index when there is a slot. *)
FocusSlotOf(id) ==
  /\ slots' = Allocated(id)
  /\ IF SlotOf(id) = 0 THEN UNCHANGED <<focused, grid, shown>>
                       ELSE FocusIndex(SlotOf(id), Allocated(id))

(* land_on_board *)
LandOnBoard == FocusIndex(0, slots) /\ screen' = "board"

(* release_session_slot *)
ReleaseSlot(id) ==
  /\ slots' = [i \in 1..Slots |-> IF slots[i] = id THEN NoSession ELSE slots[i]]
  /\ IF focused # 0 /\ slots[focused] = id
     THEN LandOnBoard
     ELSE UNCHANGED <<focused, grid, shown, screen>>

(* upsert_session_row *)
UpsertPicker(id) ==
  picker' = IF id \in Range(picker) \/ Len(picker) = Slots THEN picker ELSE Append(picker, id)

(* ab_board_upsert, the refusal of a full board of blocked rows included. *)
BoardUpsert(row) ==
  \/ Board!Upsert(row)
  \/ /\ ~Board!Present(row.id) /\ ~Board!FreeSeat
     /\ \A i \in 1..Len(rows) : Board!IsBlocked(rows[i])
     /\ UNCHANGED board

BoardRemove(id) == Board!RemoveRow(id) \/ (~Board!Present(id) /\ UNCHANGED board)

-----------------------------------------------------------------------------
Init ==
  /\ Board!Init
  /\ slots = [i \in 1..Slots |-> NoSession]
  /\ focused = 0 /\ grid = 0 /\ shown = NoSession
  /\ screen = "board" /\ mode = "terminal" /\ picker = <<>>
  /\ net = "off" /\ connected = FALSE
  /\ ptt = FALSE /\ mic = FALSE
  /\ approvals = EmptyRing(ApprovalCap, NoSession) /\ asked = <<>>
  /\ heard = {}

(* A pass that lost its socket in a handler runs on to its poll, which     *)
(* fails: only then does the header say so.                                *)
SocketJustLost == net = "off" /\ connected

(* The head of the loop: ++g_tick and the board's viewport. *)
FrameStart ==
  /\ ~SocketJustLost
  /\ now' = (now + 1) % TickMod
  /\ hold' = [id \in Ids |-> IF hold[id] > 0 THEN hold[id] - 1 ELSE 0]
  /\ scroll' = Board!ViewportTop(BoardVisible)
  /\ UNCHANGED <<rows, order, cursor, inflight, since>>
  /\ UNCHANGED <<focus, ui, link, voice, queue, heard>>

(* The offline branch of the loop: one attempt to find the host, connect   *)
(* and attach, and nothing else; what was focused stays focused.           *)
Reconnect ==
  /\ net = "off" /\ ~connected
  /\ net' = "attached"
  /\ UNCHANGED <<connected, board, focus, ui, voice, queue, heard>>

(* ab_net_poll finds the connection gone. *)
PollFails ==
  /\ net # "off" \/ connected
  /\ net' = "off" /\ connected' = FALSE
  /\ UNCHANGED <<board, focus, ui, voice, queue, heard>>

-----------------------------------------------------------------------------
(* on_frame, one action per message type.  The host greets first.          *)

(* A HELLO that leaves slots and focus as they were. *)
HelloKeepsFocus ==
  /\ net = "attached"
  /\ net' \in {"greeted", "off"} /\ connected' = TRUE
  /\ picker' = <<>> /\ screen' = "board"
  /\ Board!Hello
  /\ heard' = {}
  /\ UNCHANGED <<focus, mode, voice, queue>>

(* HELLO: everything that came from the host is dropped but the approvals; *)
(* CLIENT_SIZE answers.                                                    *)
OnHello ==
  /\ net = "attached"
  /\ net' \in {"greeted", "off"} /\ connected' = TRUE
  /\ picker' = <<>>
  /\ Board!Hello
  /\ slots' = [i \in 1..Slots |-> NoSession]
  /\ LandOnBoard
  /\ heard' = {}
  /\ UNCHANGED <<mode, voice, queue>>

(* SESSION_STATE *)
OnSessionState(row) ==
  /\ net = "greeted"
  /\ UpsertPicker(row.id)
  /\ BoardUpsert(row)
  /\ IF focused # 0 THEN FocusIndex(focused, slots) /\ UNCHANGED slots
     ELSE IF screen = "terminal" THEN FocusSlotOf(row.id)
     ELSE UNCHANGED focus
  /\ heard' = heard \cup {row.id}
  /\ UNCHANGED <<screen, mode, link, voice, queue>>

(* TERMINAL_DATA: the slot's grid takes the bytes, and the slot is focused *)
(* when nothing is.                                                        *)
OnTerminalData(id) ==
  /\ net = "greeted"
  /\ slots' = Allocated(id)
  /\ IF SlotOf(id) # 0 /\ focused = 0 THEN FocusIndex(SlotOf(id), Allocated(id))
                                      ELSE UNCHANGED <<focused, grid, shown>>
  /\ heard' = heard \cup {id}
  /\ UNCHANGED <<board, ui, link, voice, queue>>

(* ALERT_SIGNAL; class session_ended also gives up the row and the slot. *)
OnAlert(id, ended) ==
  /\ net = "greeted"
  /\ IF ended THEN BoardRemove(id) /\ ReleaseSlot(id)
              ELSE UNCHANGED <<board, focus, screen>>
  /\ heard' = heard \cup {id}
  /\ UNCHANGED <<mode, picker, link, voice, queue>>

(* APPROVAL_REQUEST: a full queue refuses it. *)
OnApprovalRequest(a) ==
  /\ net = "greeted"
  /\ approvals' = Push(approvals, ApprovalCap, a)
  /\ asked' = IF approvals.count = ApprovalCap THEN asked ELSE Append(asked, a)
  /\ UNCHANGED <<board, focus, ui, link, voice, heard>>

-----------------------------------------------------------------------------
(* Buttons and touch. *)

(* focus_session_id: FOCUS_SESSION goes out, and the grid is switched     *)
(* whether or not it did.                                                  *)
FocusSession(id) == FocusSlotOf(id)

(* The picker row after the focused one; the first, when no row has it. *)
NextRow == picker[(SelectInSeq(picker, LAMBDA id : id = shown) % Len(picker)) + 1]

(* The board branch of handle_buttons; A is board_activate_cursor, which   *)
(* shows the terminal even when the table had no slot.                     *)
Opens(down) == "A" \in down /\ cursor' \in Board!RowIds(rows)

BoardButtons(down) ==
  /\ IF "UP" \in down THEN Board!CursorMove(FALSE)
     ELSE IF "DOWN" \in down THEN Board!CursorMove(TRUE)
     ELSE UNCHANGED board
  /\ IF Opens(down) THEN FocusSession(cursor') /\ screen' = "terminal"
                    ELSE UNCHANGED <<focus, screen>>
  /\ UNCHANGED <<mode, picker>>

(* cycle_mode *)
NextMode == CASE mode = "terminal" -> "pad" [] mode = "pad" -> "alerts"
              [] mode = "alerts" -> "terminal"

(* The terminal branch: A sends Enter, X opens the keyboard, SELECT is     *)
(* cycle_session.                                                          *)
Cycles(down) == "SELECT" \in down /\ Len(picker) >= 2

TerminalButtons(down) ==
  /\ screen' = IF "B" \in down THEN "board" ELSE screen
  /\ mode' = IF "Y" \in down THEN NextMode ELSE mode
  /\ IF Cycles(down) THEN FocusSession(NextRow) ELSE UNCHANGED focus
  /\ UNCHANGED <<board, picker>>

(* Push-to-talk: ZL starts the capture when a session is focused and the   *)
(* microphone works; a pass without ZL ends it.                            *)
TalksFrom(down, micOk) == ptt \/ ("ZL" \in down /\ focused # 0 /\ micOk)

PushToTalkKeepsMic(down, zl, micOk) ==
  /\ ptt' = (TalksFrom(down, micOk) /\ zl)
  /\ mic' = (mic \/ TalksFrom(down, micOk))

PushToTalk(down, zl, micOk) ==
  /\ ptt' = (TalksFrom(down, micOk) /\ zl)
  /\ mic' = IF TalksFrom(down, micOk) THEN zl ELSE mic

(* The overlay answers and lets the press through as well. *)
Unclaimed(down) == down

(* handle_buttons: the overlay claims A and B from what follows. *)
Answers(down) == approvals.count > 0 /\ down \cap {"A", "B"} # {}
Claimed(down) == IF Answers(down) THEN down \ {"A", "B"} ELSE down

(* respond_approval pops whether or not its answer went out. *)
Respond(down) ==
  IF Answers(down)
  THEN approvals' = Pop(approvals, ApprovalCap) /\ asked' = Tail(asked)
  ELSE UNCHANGED queue

HandleButtons(down, zl, micOk) ==
  LET rest == Claimed(down)
      sends == \/ Answers(down)
               \/ TalksFrom(down, micOk) /\ focused # 0
               \/ screen = "board" /\ Opens(rest)
               \/ screen = "terminal" /\ focused # 0 /\ rest \cap {"A", "X"} # {}
               \/ screen = "terminal" /\ Cycles(rest)
  IN  /\ net # "off"
      /\ "ZL" \in down => zl
      /\ zl => ptt \/ "ZL" \in down         \* holding it is no event otherwise
      /\ "ZL" \notin down => micOk           \* and the microphone is not asked
      /\ Respond(down)
      /\ PushToTalk(down, zl, micOk)
      /\ IF screen = "board" THEN BoardButtons(rest) ELSE TerminalButtons(rest)
      /\ SendIf(sends)
      /\ UNCHANGED heard

(* What a touch can hit now; strip, pad and deck keys differ in their      *)
(* bytes only, and Ctrl sends none.                                        *)
KeyHit == Hit("key", 0)
IsKey(hit) == hit.kind \in {"pad", "deck"} \cup (ToSet(StripKeys) \ {"ctrl"})

Touchable == {IF IsKey(hit) THEN KeyHit ELSE hit :
                hit \in HitsOf(Tested(connected, screen, mode, Len(picker), 0))}

(* board_approval: MACRO_INTENT goes out exactly when the row armed. *)
TouchApproval(hit) ==
  /\ hit.kind \in {"accept", "deny"}
  /\ IF Board!ApprovalEnabled THEN Board!ArmApproval ELSE UNCHANGED board
  /\ SendIf(Board!ApprovalEnabled)
  /\ UNCHANGED <<focus, ui>>

(* A picker row: the focus moves there, the screen stays. *)
TouchSession(hit) ==
  /\ hit.kind = "session"
  /\ FocusSession(picker[hit.n])
  /\ MaySend
  /\ UNCHANGED <<board, ui>>

TouchToggle(hit) ==
  /\ hit.kind = "toggle"
  /\ mode' = NextMode
  /\ UNCHANGED <<board, focus, screen, picker, link>>

(* A key goes to the focused session, if there is one. *)
TouchKey(hit) ==
  /\ hit.kind \in {KeyHit.kind, "ctrl"}
  /\ SendIf(focused # 0 /\ hit = KeyHit)
  /\ UNCHANGED <<board, focus, ui>>

(* handle_touch: the socket may just have been lost to the buttons. *)
HandleTouch(hit) ==
  /\ net # "off" \/ SocketJustLost
  /\ hit \in Touchable
  /\ \/ TouchApproval(hit) \/ TouchSession(hit) \/ TouchToggle(hit)
     \/ TouchKey(hit)
  /\ UNCHANGED <<voice, queue, heard>>

OnFrame ==
  \/ OnHello
  \/ \E row \in Board!Row : OnSessionState(row)
  \/ \E id \in Ids : OnTerminalData(id)
  \/ \E id \in Ids, ended \in BOOLEAN : OnAlert(id, ended)
  \/ \E a \in Approvals : OnApprovalRequest(a)

Next ==
  \/ FrameStart \/ Reconnect \/ PollFails \/ OnFrame
  \/ \E down \in Presses, zl, micOk \in BOOLEAN : HandleButtons(down, zl, micOk)
  \/ \E hit \in Touchable : HandleTouch(hit)

Spec == Init /\ [][Next]_vars

-----------------------------------------------------------------------------
(* The types; the capture runs exactly while push-to-talk says so, however *)
(* the connection and the focus change under it; the board keeps its own   *)
(* invariants inside the loop.                                             *)
TypeOK ==
  /\ Board!TypeOK
  /\ slots \in [1..Slots -> Ids \cup {NoSession}]
  /\ focused \in 0..Slots
  /\ screen \in {"board", "terminal"} /\ mode \in {"terminal", "pad", "alerts"}
  /\ picker \in Seq(Ids) /\ Len(picker) <= Slots
  /\ net \in {"off", "attached", "greeted"} /\ connected \in BOOLEAN
  /\ connected => net # "attached"
  /\ ptt \in BOOLEAN /\ mic = ptt
  /\ Board!DisplayOrder /\ Board!InflightRowBlocked

(* What the header names, whose grid is drawn and where the keys go are    *)
(* one session, its slot is in use and holds no other session, and once    *)
(* the host has greeted it is one this host has named on this connection.  *)
FocusSound ==
  /\ grid = focused
  /\ focused = 0 <=> shown = NoSession
  /\ focused # 0 => slots[focused] = shown
  /\ \A i, j \in 1..Slots : slots[i] = slots[j] /\ slots[i] # NoSession => i = j
  /\ focused # 0 /\ net = "greeted" => shown \in heard

(* The overlay shows, and A or B answers, the oldest approval that was     *)
(* taken and not answered; none is answered twice and none is lost while   *)
(* the ring turns over.                                                    *)
OverlayIsOldest == Entries(approvals, ApprovalCap) = asked

(* A press that answers an approval does nothing else: the session under   *)
(* the overlay gets no focus change, no screen change, and the board's     *)
(* cursor row is not opened.                                               *)
AnswerIsClaimed ==
  [][Len(asked') < Len(asked) => UNCHANGED <<focus, screen, cursor>>]_vars
===============================================================================
