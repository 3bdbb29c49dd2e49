\* HerdrBridge: two daemons whose panes have the same id, lost and found again.
SPECIFICATION Spec
CONSTANTS
  Clients = {c1, c2, c3}
  Names = {"a", "b"}
  Panes = {"p"}
  Statuses = {"blocked", "working"}
  Sizes = {"default", "other"}
  Default = "default"
  NoSize = "none"
  OpKinds = {"focus"}
  Modes = {TRUE, FALSE}
  MaxId = 3
  MaxResubs = 2
  MaxOps = 1
SYMMETRY SymClients
INVARIANTS
  ChannelFollowsFocus
  KeyIndexSound
  BoardMirrors
  RefreshLoopAlive
  BootsAreFresh
PROPERTIES
  IdsNeverReused
  IsolatedFailure
CHECK_DEADLOCK FALSE
