\* AgentBoard: a three-row board, four sessions, a two-tick cooldown and a
\* four-tick clock that wraps.
SPECIFICATION Spec
CONSTANTS
  a = a
  b = b
  c = c
  d = d
  Ids <- MCIds
  NoSession = NoSession
  Kinds = {"claude", "shell"}
  Allowlist = {"claude"}
  Statuses = {"blocked", "working"}
  Blocked = "blocked"
  Cap = 3
  Cooldown = 2
  TickMod = 4
  Visible = {2}
SYMMETRY SymIds
INVARIANTS
  TypeOK
  DisplayOrder
  SomethingSelected
  InflightRowBlocked
  ViewportShowsCursor
PROPERTIES
  DoubleTapHeld
  CursorTracksIdentity
  BlockedKeepsSeat
CHECK_DEADLOCK TRUE
