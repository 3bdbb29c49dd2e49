---------------------------------- MODULE Ui ----------------------------------
(***************************************************************************)
(* The bottom screen of the device (ui.c, input.c): which widgets are      *)
(* drawn in which state, in drawing order, and the hand-written hit test   *)
(* that is meant to match them.  A later widget is drawn over an earlier.  *)
(* A widget is a rectangle in pixels and the hit it stands for; the bytes  *)
(* of the key widgets are those of ui_pad_keys, ui_deck_keys and           *)
(* ab_input_control_bytes.  Colours, labels and text are left out.         *)
(***************************************************************************)
EXTENDS Integers, Sequences, SequencesExt

VisibleAlerts == 8     \* ALERT_ROWS_VISIBLE
NoHit == [kind |-> "none", n |-> 0]
Hit(kind, n) == [kind |-> kind, n |-> n]
Widget(hit, x, y, w, h) == [hit |-> hit, x |-> x, y |-> y, w |-> w, h |-> h]

(* in_rect *)
InRect(widget, x, y) ==
  /\ x >= widget.x /\ x < widget.x + widget.w
  /\ y >= widget.y /\ y < widget.y + widget.h

-----------------------------------------------------------------------------
(* The key tables. *)
Esc == <<27>>
Tab == <<9>>
CtrlC == <<3>>
Enter == <<13>>
Csi(final) == <<27, 91, final>>
ShiftTab == Csi(90)

StripKeys == <<"ctrl", "esc", "tab", "left", "down", "up", "right", "ctrlc", "keyboard">>
StripX == <<2, 44, 80, 116, 142, 168, 194, 220, 256>>
StripW == <<40, 34, 34, 24, 24, 24, 24, 34, 60>>

(* ab_input_control_bytes: Ctrl and the keyboard carry no bytes. *)
ControlBytes(key) ==
  CASE key = "esc"   -> Esc      [] key = "tab"   -> Tab     [] key = "ctrlc" -> CtrlC
    [] key = "up"    -> Csi(65)  [] key = "down"  -> Csi(66)
    [] key = "right" -> Csi(67)  [] key = "left"  -> Csi(68)
    [] OTHER -> <<>>

(* PAD *)
PadLabels == <<"ctrlc", "enter", "esc", "tab", "yes", "no", "up", "down">>
PadBytes == <<CtrlC, Enter, Esc, Tab, <<121, 13>>, <<110, 13>>, Csi(65), Csi(66)>>

(* DECK *)
DeckLabels == <<"left", "down", "up", "right", "enter", "esc", "tab", "shifttab", "space">>
DeckBytes == <<Csi(68), Csi(66), Csi(65), Csi(67), Enter, Esc, Tab, ShiftTab, <<32>>>>

-----------------------------------------------------------------------------
(* The widgets. *)
Column(i, cols) == (i - 1) % cols
Line(i, cols) == (i - 1) \div cols
RowWidget(kind, i) == Widget(Hit(kind, i), 4, 36 + 22 * (i - 1), 312, 20)

(* draw_key: two pixels of gap on the right of every key. *)
StripWidgets ==
  [i \in 1..Len(StripKeys) |-> Widget(Hit(StripKeys[i], 0), StripX[i], 200, StripW[i] - 2, 36)]
PickerWidgets(count) == [i \in 1..count |-> RowWidget("session", i)]

(* render_alertlog *)
AlertWidgets(count) ==
  [i \in 1..(IF count < VisibleAlerts THEN count ELSE VisibleAlerts) |-> RowWidget("alert", i)]

(* pad_rect, deck_rect *)
PadWidgets ==
  [i \in 1..Len(PadBytes) |->
     Widget(Hit("pad", i), 8 + 76 * Column(i, 4), 60 + 64 * Line(i, 4), 72, 60)]
DeckWidgets ==
  [i \in 1..Len(DeckBytes) |->
     Widget(Hit("deck", i), 6 + 62 * Column(i, 5), 92 + 42 * Line(i, 5), 60, 40)]
Accept == Widget(Hit("accept", 0), 8, 34, 148, 46)
Deny == Widget(Hit("deny", 0), 164, 34, 148, 46)
Toggle == Widget(Hit("toggle", 0), 250, 4, 66, 24)

(* ui_render, bottom screen, in drawing order.  usable is connected and no *)
(* configuration error.                                                    *)
Drawn(usable, screen, mode, sessions, alerts) ==
  IF ~usable THEN <<>>
  ELSE IF screen = "board" THEN <<Accept, Deny>> \o DeckWidgets
  ELSE <<Toggle>> \o CASE mode = "pad"      -> PadWidgets
                       [] mode = "alerts"   -> AlertWidgets(alerts)
                       [] mode = "terminal" -> PickerWidgets(sessions) \o StripWidgets

(* ui_hit_bottom: the order in which it tries the rectangles. *)
Tested(usable, screen, mode, sessions, alerts) ==
  IF ~usable THEN <<>>
  ELSE IF screen = "board" THEN <<Accept, Deny>> \o DeckWidgets
  ELSE <<Toggle>> \o CASE mode = "terminal" -> StripWidgets \o PickerWidgets(sessions)
                       [] mode = "pad"      -> PadWidgets
                       [] mode = "alerts"   -> AlertWidgets(alerts)

HitAt(tested, x, y) ==
  LET i == SelectInSeq(tested, LAMBDA widget : InRect(widget, x, y))
  IN  IF i = 0 THEN NoHit ELSE tested[i].hit

(* What the player sees at a pixel: the widget drawn last there. *)
SeenAt(drawn, x, y) ==
  LET i == SelectLastInSeq(drawn, LAMBDA widget : InRect(widget, x, y))
  IN  IF i = 0 THEN NoHit ELSE drawn[i].hit

(* The hits a touch can produce. *)
HitsOf(tested) == {tested[i].hit : i \in 1..Len(tested)}
===============================================================================
