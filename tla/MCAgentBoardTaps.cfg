\* AgentBoard: Accept on one row, then another, then the first again.
SPECIFICATION Spec
CONSTANTS
  a = a
  b = b
  c = c
  d = d
  Ids <- MCIds
  NoSession = NoSession
  Kinds = {"claude", "shell"}
  Allowlist = {"claude"}
  Statuses = {"blocked", "working"}
  Blocked = "blocked"
  Cap = 3
  Cooldown = 2
  TickMod = 4
  Visible = {2}
SYMMETRY SymIds
PROPERTY OneSendPerRow
