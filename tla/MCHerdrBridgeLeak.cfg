\* HerdrBridge: a daemon lost while resubscribes are chained.
SPECIFICATION Spec
CONSTANTS
  Clients = {c1, c2}
  Names = {"a"}
  Panes = {"p", "q"}
  Statuses = {"blocked"}
  Sizes = {"default", "other"}
  Default = "default"
  NoSize = "none"
  OpKinds = {}
  Modes = {FALSE}
  MaxId = 2
  MaxResubs = 2
  MaxOps = 1
SYMMETRY SymClients
INVARIANTS
  NoLeakedSubscription
CHECK_DEADLOCK FALSE
