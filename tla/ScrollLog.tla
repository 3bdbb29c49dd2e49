------------------------------- MODULE ScrollLog -------------------------------
(***************************************************************************)
(* What a scrolling terminal promises (client/source/term.h, "a scrolling- *)
(* log renderer"): Height live lines that output may rewrite, above them   *)
(* the last Depth lines that scrolled off, which nothing may change, and a *)
(* view that looks at Height consecutive lines of the two.                 *)
(***************************************************************************)
EXTENDS Naturals, Sequences

CONSTANTS Height,     \* AB_TERM_ROWS, at least 1
          Depth,      \* the lines of history: AB_TERM_SCROLLBACK - AB_TERM_ROWS
          BlankLine   \* a line of blanks

VARIABLES past,       \* the lines that scrolled off, oldest first
          live,       \* the live screen, top line first
          view        \* how many lines the view is above the live bottom

logvars == <<past, live, view>>

BlankScreen == [i \in 1..Height |-> BlankLine]

Init == past = <<>> /\ live = BlankScreen /\ view = 0

(* Output that stays on the screen.  New output pins the view.             *)
Edit ==
  /\ Len(live') = Height
  /\ view' = 0
  /\ UNCHANGED past

(* Output past the bottom: the top line joins the history as it is, the    *)
(* oldest line is forgotten when the history is full.                      *)
ScrollUp ==
  LET longer == Append(past, Head(live))
  IN  /\ past' = IF Len(longer) > Depth THEN Tail(longer) ELSE longer
      /\ Len(live') = Height
      /\ SubSeq(live', 1, Height - 1) = Tail(live)
      /\ view' = 0

Pan == view' \in 0..Len(past) /\ UNCHANGED <<past, live>>

Clear == past' = <<>> /\ live' = BlankScreen /\ view' = 0

Next == Edit \/ ScrollUp \/ Pan \/ Clear

Spec == Init /\ [][Next]_logvars

-----------------------------------------------------------------------------
(* The lines the view shows. *)
Window == SubSeq(past \o live, Len(past) - view + 1, Len(past) - view + Height)

=============================================================================
