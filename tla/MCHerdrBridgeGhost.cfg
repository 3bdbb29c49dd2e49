\* HerdrBridge: panes that are dropped or closed and a device that keeps their rows.
SPECIFICATION Spec
CONSTANTS
  Clients = {c1, c2}
  Names = {"a"}
  Panes = {"p"}
  Statuses = {"blocked"}
  Sizes = {"default", "other"}
  Default = "default"
  NoSize = "none"
  OpKinds = {}
  Modes = {FALSE}
  MaxId = 2
  MaxResubs = 1
  MaxOps = 1
SYMMETRY SymClients
INVARIANTS
  NoGhostRow
CHECK_DEADLOCK FALSE
