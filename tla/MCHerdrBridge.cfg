\* HerdrBridge: one daemon with two panes, every operation of the device.
SPECIFICATION Spec
CONSTANTS
  Clients = {c1, c2}
  Names = {"a"}
  Panes = {"p", "q"}
  Statuses = {"blocked"}
  Sizes = {"default", "other"}
  Default = "default"
  NoSize = "none"
  OpKinds = {"focus", "size", "approve"}
  Modes = {TRUE, FALSE}
  MaxId = 2
  MaxResubs = 2
  MaxOps = 2
SYMMETRY SymClients
INVARIANTS
  TypeOK
  ChannelFollowsFocus
  OneApprovalPerRow
CHECK_DEADLOCK FALSE
