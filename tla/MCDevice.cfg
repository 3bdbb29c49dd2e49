\* Device: three sessions for two slots and two picker rows, a board of one row,
\* a two-entry approval queue that turns over.
SPECIFICATION Spec
CONSTANTS
  a = a
  b = b
  c = c
  p = p
  q = q
  Ids <- MCIds
  NoSession = NoSession
  Kinds = {"claude"}
  Allowlist = {"claude"}
  Statuses = {"blocked"}
  Blocked = "blocked"
  BoardCap = 1
  Cooldown = 1
  TickMod = 2
  BoardVisible = 1
  Slots = 2
  Approvals <- MCApprovals
  ApprovalCap = 2
  Presses <- MCPresses
SYMMETRY Sym
INVARIANTS
  TypeOK
  FocusSound
  OverlayIsOldest
PROPERTIES
  AnswerIsClaimed
CHECK_DEADLOCK TRUE
